---- MODULE Spec2Model ----
(***************************************************************************)
(* Model of src/ingest.py: the ingestion pipeline that discovers monthly   *)
(* CSV files, decodes each with a list of candidate encodings, normalizes  *)
(* the schema, concatenates the per-file tables and persists the result.   *)
(*                                                                         *)
(* Text (file names, column names) is a sequence of one-character strings, *)
(* so that splitting, trimming and lower-casing are computed, not assumed. *)
(* A table (pandas DataFrame) is a record [cols, rows]: cols the sequence  *)
(* of column names, rows a sequence of rows, each a sequence of cells of   *)
(* the same length as cols.                                                *)
(***************************************************************************)
EXTENDS Integers, Sequences, FiniteSets, TLC

VARIABLES
  dirExists, files, outDir, outFile, out0,
  pc, idx, dfs, combined, err, log, results, trace,
  arg, res, fpc

\* ---------------------------------------------------------------- bounds

MaxFiles == 2
MaxRows == 1
MaxTokens == 3
MaxCols == 2

\* ------------------------------------------------------------------ text

UpperCase == <<"A","B","C","D","E","F","G","H","I","J","K","L","M",
               "N","O","P","Q","R","S","T","U","V","W","X","Y","Z">>
LowerCase == <<"a","b","c","d","e","f","g","h","i","j","k","l","m",
               "n","o","p","q","r","s","t","u","v","w","x","y","z">>

Whitespace == {" ", "\t"}

\* str.lower() on one character
LowerChar(c) ==
  IF \E i \in 1..Len(UpperCase) : UpperCase[i] = c
  THEN LowerCase[CHOOSE i \in 1..Len(UpperCase) : UpperCase[i] = c]
  ELSE c

\* str.lower()
StrLower(s) == [i \in 1..Len(s) |-> LowerChar(s[i])]

\* str.strip(): drop leading and trailing whitespace
StrStrip(s) ==
  LET keep == {i \in 1..Len(s) : s[i] \notin Whitespace}
  IN IF keep = {} THEN <<>>
     ELSE LET lo == CHOOSE i \in keep : \A j \in keep : i <= j
              hi == CHOOSE i \in keep : \A j \in keep : j <= i
          IN SubSeq(s, lo, hi)

\* str.split("_"): the tokens between underscores, empty tokens kept
RECURSIVE SplitFrom(_, _, _)
SplitFrom(s, i, cur) ==
  IF i > Len(s) THEN <<cur>>
  ELSE IF s[i] = "_" THEN <<cur>> \o SplitFrom(s, i + 1, <<>>)
  ELSE SplitFrom(s, i + 1, Append(cur, s[i]))

Split(s) == SplitFrom(s, 1, <<>>)

\* Path.stem: the name without its last suffix
PathStem(name) ==
  LET dots == {i \in 1..Len(name) : name[i] = "."}
  IN IF dots = {} THEN name
     ELSE LET i == CHOOSE d \in dots : \A e \in dots : e <= d
          IN IF i > 1 /\ i < Len(name) THEN SubSeq(name, 1, i - 1) ELSE name

\* "-" in part
HasHyphen(part) == \E i \in 1..Len(part) : part[i] = "-"

PeriodLen == 7
Unknown == <<"u","n","k","n","o","w","n">>

\* ------------------------------------------------- configuration (l.23-36)

S_job_title == <<"j","o","b","_","t","i","t","l","e">>
S_noc == <<"n","o","c">>
S_naics == <<"n","a","i","c","s">>
S_province == <<"p","r","o","v","i","n","c","e">>
S_city == <<"c","i","t","y">>
S_vacancies == <<"v","a","c","a","n","c","i","e","s">>
S_salary == <<"s","a","l","a","r","y">>
S_source_file == <<"s","o","u","r","c","e","_","f","i","l","e">>
S_source_month == <<"s","o","u","r","c","e","_","m","o","n","t","h">>

REQUIRED_COLUMNS ==
  <<S_job_title, S_noc, S_naics, S_province, S_city, S_vacancies, S_salary>>

\* pd.NA, the null marker (no text: text is one character per element)
NA == <<"<NA>">>

\* --------------------------------------------------------------- helpers

Range(s) == {s[i] : i \in 1..Len(s)}

\* One logger call: the level, which message, and the text and encoding it names
LogLine(lvl, msg, a, enc) == [lvl |-> lvl, msg |-> msg, arg |-> a, enc |-> enc]

\* The loop of extract_month_from_filename over the parts, from part i on:
\* the first part that contains a hyphen and has exactly 7 characters.
RECURSIVE FirstPeriodPart(_, _)
FirstPeriodPart(parts, i) ==
  IF i > Len(parts) THEN [found |-> FALSE, val |-> <<>>]
  ELSE IF HasHyphen(parts[i]) /\ Len(parts[i]) = PeriodLen
       THEN [found |-> TRUE, val |-> parts[i]]
       ELSE FirstPeriodPart(parts, i + 1)

\* (a faulty variant: keeps scanning and returns the last matching part)
RECURSIVE LastPeriodPart(_, _)
LastPeriodPart(parts, i) ==
  IF i > Len(parts) THEN [found |-> FALSE, val |-> <<>>]
  ELSE LET later == LastPeriodPart(parts, i + 1)
       IN IF later.found THEN later
          ELSE IF HasHyphen(parts[i]) /\ Len(parts[i]) = PeriodLen
               THEN [found |-> TRUE, val |-> parts[i]]
               ELSE later

ExtractLastMatch(name) ==
  LET hit == LastPeriodPart(Split(PathStem(name)), 1)
  IN IF hit.found THEN [val |-> hit.val, log |-> <<>>]
     ELSE [val |-> Unknown,
           log |-> <<LogLine("warning", "no_month", name, "none")>>]

\* extract_month_from_filename(file_path): the period token and what it logs
extract_month_from_filename(name) ==
  LET hit == FirstPeriodPart(Split(PathStem(name)), 1)
  IN IF hit.found THEN [val |-> hit.val, log |-> <<>>]
     ELSE [val |-> Unknown,
           log |-> <<LogLine("warning", "no_month", name, "none")>>]

\* ---------------------------------------------------------------- tables

EmptyTable == [cols |-> <<>>, rows |-> <<>>]

\* df.empty: some axis has length zero
IsEmpty(df) == Len(df.cols) = 0 \/ Len(df.rows) = 0

\* df.columns = df.columns.str.lower().str.strip()
RenameColumns(df) ==
  [df EXCEPT !.cols = [i \in 1..Len(df.cols) |-> StrStrip(StrLower(df.cols[i]))]]

\* df[col] = v for a scalar v: every column named col is set to v in every
\* row; when there is none, a new last column is added
SetColumn(df, col, v) ==
  IF col \in Range(df.cols)
  THEN [df EXCEPT !.rows =
          [r \in 1..Len(df.rows) |->
             [c \in 1..Len(df.cols) |->
                IF df.cols[c] = col THEN v ELSE df.rows[r][c]]]]
  ELSE [cols |-> Append(df.cols, col),
        rows |-> [r \in 1..Len(df.rows) |-> Append(df.rows[r], v)]]

\* The loop of normalize_schema over REQUIRED_COLUMNS, from column k on
RECURSIVE FillMissing(_, _)
FillMissing(st, k) ==
  IF k > Len(REQUIRED_COLUMNS) THEN st
  ELSE LET col == REQUIRED_COLUMNS[k]
       IN IF col \notin Range(st.df.cols)
          THEN FillMissing(
                 [df |-> SetColumn(st.df, col, NA),
                  log |-> Append(st.log,
                            LogLine("warning", "missing_column", col, "none"))],
                 k + 1)
          ELSE FillMissing(st, k + 1)

\* (a faulty variant: matches the required names against the raw column
\* names, without trimming and lower-casing them first)
NormalizeNoRename(df) == FillMissing([df |-> df, log |-> <<>>], 1)

\* (a faulty variant of the loop: the test for the column being absent is
\* missing, every required column is filled with NA and warned about)
RECURSIVE FillAll(_, _)
FillAll(st, k) ==
  IF k > Len(REQUIRED_COLUMNS) THEN st
  ELSE FillAll([df |-> SetColumn(st.df, REQUIRED_COLUMNS[k], NA),
                log |-> Append(st.log,
                          LogLine("warning", "missing_column", REQUIRED_COLUMNS[k], "none"))],
               k + 1)

NormalizeAlwaysFills(df) == FillAll([df |-> RenameColumns(df), log |-> <<>>], 1)

\* normalize_schema(df): the normalized table and what it logs
normalize_schema(df) == FillMissing([df |-> RenameColumns(df), log |-> <<>>], 1)

\* ------------------------------------------------------------- raw files

S_csv == <<".","c","s","v">>
Name_a == <<"a","_","2","0","2","3","-","0","1">> \o S_csv
Name_report == <<"r","e","p","o","r","t">> \o S_csv

Name_x == <<"x","_","a","b","-","2","0","2","3","_","2","0","2","4","-","0","5">> \o S_csv

H_job_title == <<"J","o","b","_","T","i","t","l","e">>
H_naics == <<"N","A","I","C","S">>
H_city == <<" ","C","i","t","y"," ">>
H_source_file == <<"S","o","u","r","c","e","_","F","i","l","e">>
H_extra == <<"e","x","t","r","a">>

\* The kinds of file content: the header row, and the encodings under which
\* pd.read_csv parses the bytes. "garbage" parses under none.
FileKinds == {"garbage", "utf8", "utf16", "cp1252", "latin1"}

Header(kind) ==
  CASE kind = "utf8" -> <<S_job_title, S_noc, S_province>>
    [] kind = "utf16" -> <<H_job_title, H_naics, H_city, S_vacancies, S_salary>>
    [] kind = "cp1252" -> <<H_city, S_city, S_noc>>
    [] kind = "latin1" -> <<H_source_file, H_extra, S_source_month, S_province>>
    [] OTHER -> <<>>

Parses(kind) ==
  CASE kind = "utf8" -> {"utf-8", "cp1252", "latin1"}
    [] kind = "utf16" -> {"utf-16", "latin1"}
    [] kind = "cp1252" -> {"cp1252", "latin1"}
    [] kind = "latin1" -> {"latin1"}
    [] OTHER -> {}

\* The value pd.read_csv gives cell (r, c) of file f read with encoding enc:
\* decoded text depends on the encoding; the cell on the diagonal is blank.
RawCell(f, enc, r, c) ==
  IF r = c THEN NA ELSE <<"cell", ToString(f.id), enc, ToString(r), ToString(c)>>

\* latin1 maps every byte, so under it only the parser can fail
FailKind(enc) == IF enc = "latin1" THEN "ParserError" ELSE "UnicodeDecodeError"

\* pd.read_csv(file_path, encoding=enc): a table, or the exception raised
ParseCsv(f, enc) ==
  IF enc \in Parses(f.kind)
  THEN [ok |-> TRUE, exc |-> "none",
        df |-> [cols |-> Header(f.kind),
                rows |-> [r \in 1..f.nrows |->
                            [c \in 1..Len(Header(f.kind)) |-> RawCell(f, enc, r, c)]]]]
  ELSE [ok |-> FALSE, exc |-> FailKind(enc), df |-> EmptyTable]

\* The name each kind of file is stored under
FileName(kind) ==
  CASE kind = "utf8" -> Name_a
    [] kind = "utf16" -> Name_report
    [] kind = "cp1252" -> Name_a
    [] kind = "latin1" -> Name_x
    [] OTHER -> Name_report

RawFiles == [kind : FileKinds \ {"garbage"}, nrows : 0..MaxRows]
              \cup [kind : {"garbage"}, nrows : {0}]

\* The listings rglob can yield: up to MaxFiles files, in enumeration order
Listings ==
  UNION {[1..n -> RawFiles] : n \in 0..MaxFiles}

WithIds(listing) ==
  [i \in 1..Len(listing) |->
     [id |-> i, name |-> FileName(listing[i].kind), kind |-> listing[i].kind,
      nrows |-> listing[i].nrows]]

\* ----------------------------------------------------------- read_csv_file

\* (a faulty variant: the loop catches decoding errors only)
CatchesDecodeErrorsOnly(exc) == exc = "UnicodeDecodeError"

\* except Exception: every exception of the loop body is caught
Catches(exc) == TRUE

\* (a faulty variant: latin1, which maps every byte, is tried first)
EncodingsLatinFirst == <<"latin1", "utf-8", "utf-16", "cp1252">>

\* encodings of read_csv_file
encodings == <<"utf-8", "utf-16", "cp1252", "latin1">>

\* (a faulty variant: a column of the file named source_file or source_month
\* is kept as read instead of being overwritten)
TagKeepsExisting(f, df) ==
  LET n == normalize_schema(df)
      m == extract_month_from_filename(f.name)
      d1 == IF S_source_file \in Range(n.df.cols) THEN n.df
            ELSE SetColumn(n.df, S_source_file, f.name)
      d2 == IF S_source_month \in Range(d1.cols) THEN d1
            ELSE SetColumn(d1, S_source_month, m.val)
  IN [df |-> d2, log |-> n.log \o m.log]

\* The body of the try after a successful read: normalize, then set
\* source_file and source_month
Tag(f, df) ==
  LET n == normalize_schema(df)
      m == extract_month_from_filename(f.name)
  IN [df |-> SetColumn(SetColumn(n.df, S_source_file, f.name), S_source_month, m.val),
      log |-> n.log \o m.log]

\* The loop of read_csv_file over the encodings, from encoding k on
RECURSIVE TryEncodings(_, _, _)
TryEncodings(f, k, tried) ==
  IF k > Len(encodings)
  THEN [df |-> EmptyTable, raised |-> "none", tried |-> tried, enc |-> "none",
        log |-> <<LogLine("error", "could_not_decode", f.name, "none")>>]
  ELSE LET enc == encodings[k]
           p == ParseCsv(f, enc)
       IN IF p.ok
          THEN LET t == Tag(f, p.df)
               IN [df |-> t.df, raised |-> "none", tried |-> Append(tried, enc),
                   enc |-> enc,
                   log |-> <<LogLine("info", "loaded", f.name, enc)>> \o t.log]
          ELSE IF Catches(p.exc)
               THEN TryEncodings(f, k + 1, Append(tried, enc))
               ELSE [df |-> EmptyTable, raised |-> p.exc, tried |-> Append(tried, enc),
                     enc |-> "none", log |-> <<>>]

\* read_csv_file(file_path): the table returned (or the exception raised),
\* the encodings tried in order, the one that worked, and what it logs
read_csv_file(f) == TryEncodings(f, 1, <<>>)

\* ---------------------------------------------------------------- concat

HasDuplicates(cols) == \E i, j \in 1..Len(cols) : i < j /\ cols[i] = cols[j]

\* The columns of the frames from frame k on that are not in acc, appended
\* to acc in order of first appearance
RECURSIVE UnionColumns(_, _, _)
UnionColumns(frames, k, acc) ==
  IF k > Len(frames) THEN acc
  ELSE LET c == frames[k].cols
           new == SelectSeq(c, LAMBDA x : x \notin Range(acc))
       IN UnionColumns(frames, k + 1, acc \o new)

\* One frame's rows laid out on the columns cols: a column the frame lacks
\* is null
Reindex(df, cols) ==
  [r \in 1..Len(df.rows) |->
     [c \in 1..Len(cols) |->
        IF cols[c] \in Range(df.cols)
        THEN df.rows[r][CHOOSE i \in 1..Len(df.cols) : df.cols[i] = cols[c]]
        ELSE NA]]

RECURSIVE StackRows(_, _, _)
StackRows(frames, k, cols) ==
  IF k > Len(frames) THEN <<>>
  ELSE Reindex(frames[k], cols) \o StackRows(frames, k + 1, cols)

RECURSIVE StackAsIs(_, _)
StackAsIs(frames, k) ==
  IF k > Len(frames) THEN <<>>
  ELSE frames[k].rows \o StackAsIs(frames, k + 1)

\* pd.concat(dfs, ignore_index=True) of a non-empty list: frames with the
\* same columns are stacked; otherwise the columns are united and each frame
\* reindexed, which pandas refuses for a frame with duplicate column names
Concat(frames) ==
  IF \A k \in 1..Len(frames) : frames[k].cols = frames[1].cols
  THEN [ok |-> TRUE, df |-> [cols |-> frames[1].cols, rows |-> StackAsIs(frames, 1)]]
  ELSE IF \E k \in 1..Len(frames) : HasDuplicates(frames[k].cols)
       THEN [ok |-> FALSE, df |-> EmptyTable]
       ELSE LET cols == UnionColumns(frames, 1, <<>>)
            IN [ok |-> TRUE, df |-> [cols |-> cols, rows |-> StackRows(frames, 1, cols)]]

\* ------------------------------------------------------------ the pipeline

\* What is at the output path: nothing, the artifact of an earlier run, the
\* table this run wrote, or the remains of a write that failed
OutFile(state, data) == [state |-> state, data |-> data]

pipeVars == <<dirExists, files, outDir, outFile, out0,
              pc, idx, dfs, combined, err, log, results, trace>>
funVars == <<arg, res, fpc>>
vars == <<pipeVars, funVars>>

FunOff == arg = <<>> /\ res = <<>> /\ fpc = "off"

\* A run starts with the input directory present or not, holding some files,
\* and the output location as an earlier run may have left it
Init ==
  /\ dirExists \in BOOLEAN
  /\ files \in {WithIds(l) : l \in Listings}
  /\ (~dirExists => files = <<>>)
  /\ \E o \in {[dir |-> FALSE, file |-> OutFile("absent", EmptyTable)],
               [dir |-> TRUE, file |-> OutFile("absent", EmptyTable)],
               [dir |-> TRUE, file |-> OutFile("old", EmptyTable)]} :
        out0 = o /\ outDir = o.dir /\ outFile = o.file
  /\ pc = "start"
  /\ idx = 0
  /\ dfs = <<>>
  /\ combined = EmptyTable
  /\ err = "none"
  /\ log = <<>>
  /\ results = <<>>
  /\ trace = <<>>
  /\ FunOff

\* (a faulty variant: the output directory is created before the input is
\* looked at)
DiscoverMkdirFirst ==
  /\ pc = "start"
  /\ trace' = Append(trace, "discover")
  /\ outDir' = TRUE
  /\ IF ~dirExists \/ Len(files) = 0
     THEN /\ err' = "FileNotFoundError"
          /\ pc' = "aborted"
          /\ log' = Append(log, LogLine("info", "starting", <<>>, "none"))
          /\ idx' = idx
     ELSE /\ err' = err
          /\ pc' = "decode"
          /\ idx' = 1
          /\ log' = log \o <<LogLine("info", "starting", <<>>, "none"),
                            LogLine("info", "discovered", <<ToString(Len(files))>>, "none")>>
  /\ UNCHANGED <<dirExists, files, outFile, out0, dfs, combined, results>>
  /\ UNCHANGED funVars

\* main up to the loop of ingest_all_files (l.150-118): the directory and the
\* listing are checked, FileNotFoundError raised when there is nothing to read
Discover ==
  /\ pc = "start"
  /\ trace' = Append(trace, "discover")
  /\ IF ~dirExists \/ Len(files) = 0
     THEN /\ err' = "FileNotFoundError"
          /\ pc' = "aborted"
          /\ log' = Append(log, LogLine("info", "starting", <<>>, "none"))
          /\ idx' = idx
     ELSE /\ err' = err
          /\ pc' = "decode"
          /\ idx' = 1
          /\ log' = log \o <<LogLine("info", "starting", <<>>, "none"),
                            LogLine("info", "discovered", <<ToString(Len(files))>>, "none")>>
  /\ UNCHANGED <<dirExists, files, outDir, outFile, out0, dfs, combined, results>>
  /\ UNCHANGED funVars

\* One iteration of the loop of ingest_all_files (l.120-124)
DecodeFile ==
  /\ pc = "decode"
  /\ idx <= Len(files)
  /\ LET r == read_csv_file(files[idx])
     IN /\ results' = Append(results, r)
        /\ log' = log \o r.log
        /\ trace' = Append(trace, "decode")
        /\ IF r.raised # "none"
           THEN /\ err' = r.raised
                /\ pc' = "aborted"
                /\ UNCHANGED <<idx, dfs>>
           ELSE /\ dfs' = IF ~IsEmpty(r.df) THEN Append(dfs, r.df) ELSE dfs
                /\ idx' = idx + 1
                /\ UNCHANGED <<err, pc>>
  /\ UNCHANGED <<dirExists, files, outDir, outFile, out0, combined>>
  /\ UNCHANGED funVars

\* The end of ingest_all_files (l.126-135): RuntimeError when nothing was
\* collected, else the concatenation is returned to main
Assemble ==
  /\ pc = "decode"
  /\ idx > Len(files)
  /\ trace' = Append(trace, "assemble")
  /\ IF Len(dfs) = 0
     THEN /\ err' = "RuntimeError"
          /\ pc' = "aborted"
          /\ UNCHANGED <<combined, log>>
     ELSE LET c == Concat(dfs)
          IN IF c.ok
             THEN /\ combined' = c.df
                  /\ pc' = "save"
                  /\ log' = Append(log, LogLine("info", "combined_shape",
                              <<ToString(Len(c.df.rows)), ToString(Len(c.df.cols))>>, "none"))
                  /\ err' = err
             ELSE /\ err' = "InvalidIndexError"
                  /\ pc' = "aborted"
                  /\ UNCHANGED <<combined, log>>
  /\ UNCHANGED <<dirExists, files, outDir, outFile, out0, idx, dfs, results>>
  /\ UNCHANGED funVars

\* save_dataset and the end of main (l.138-156): mkdir, then to_parquet; either
\* may fail with an OSError, which nothing catches
SaveDataset ==
  /\ pc = "save"
  /\ trace' = Append(trace, "persist")
  /\ \E outcome \in {"ok", "mkdir_fails", "write_fails"} :
       CASE outcome = "ok" ->
              /\ outDir' = TRUE
              /\ outFile' = OutFile("written", combined)
              /\ pc' = "done"
              /\ err' = err
              /\ log' = log \o <<LogLine("info", "saved", <<>>, "none"),
                                LogLine("info", "complete", <<>>, "none")>>
         [] outcome = "mkdir_fails" ->
              /\ ~outDir
              /\ UNCHANGED <<outDir, outFile, log>>
              /\ pc' = "aborted"
              /\ err' = "OSError"
         [] outcome = "write_fails" ->
              /\ outDir' = TRUE
              /\ outFile' \in {outFile, OutFile("partial", EmptyTable)}
              /\ pc' = "aborted"
              /\ err' = "OSError"
              /\ log' = log
  /\ UNCHANGED <<dirExists, files, out0, idx, dfs, combined, results>>
  /\ UNCHANGED funVars

Next == Discover \/ DecodeFile \/ Assemble \/ SaveDataset

Spec == Init /\ [][Next]_vars

\* ------------------------------------------- extract_month_from_filename

T_report == <<"r","e","p","o","r","t">>
T_2023_01 == <<"2","0","2","3","-","0","1">>
T_final_x == <<"f","i","n","a","l","-","x">>
T_abcdefg == <<"a","b","c","d","e","f","g">>
T_2023_1 == <<"2","0","2","3","-","1">>
T_2023_001 == <<"2","0","2","3","-","0","0","1">>

\* Tokens a stem is made of: none has an underscore
Tokens == {T_report, T_2023_01, T_final_x, T_abcdefg, T_2023_1, T_2023_001, <<>>}

RECURSIVE Join(_, _)
Join(toks, k) ==
  IF k > Len(toks) THEN <<>>
  ELSE IF k = Len(toks) THEN toks[k]
  ELSE toks[k] \o <<"_">> \o Join(toks, k + 1)

\* File names whose stem is one to MaxTokens tokens joined by underscores
TokenLists ==
  {t \in UNION {[1..n -> Tokens] : n \in 1..MaxTokens} : Join(t, 1) # <<>>}

PipeOff ==
  /\ dirExists = FALSE
  /\ files = <<>>
  /\ out0 = [dir |-> FALSE, file |-> OutFile("absent", EmptyTable)]
  /\ outDir = FALSE
  /\ outFile = OutFile("absent", EmptyTable)
  /\ pc = "off"
  /\ idx = 0
  /\ dfs = <<>>
  /\ combined = EmptyTable
  /\ err = "none"
  /\ log = <<>>
  /\ results = <<>>
  /\ trace = <<>>

InitPeriod ==
  /\ PipeOff
  /\ \E t \in TokenLists : arg = [tokens |-> t, name |-> Join(t, 1) \o S_csv]
  /\ res = <<>>
  /\ fpc = "period"

\* One call of extract_month_from_filename on the file name
ExtractPeriod ==
  /\ fpc = "period"
  /\ res' = extract_month_from_filename(arg.name)
  /\ fpc' = "period_done"
  /\ UNCHANGED <<arg, pipeVars>>

SpecPeriod == InitPeriod /\ [][ExtractPeriod]_vars

\* ------------------------------------------------------- normalize_schema

\* Column names as a file may spell them, each with the name it stands for
RawNames ==
  {[raw |-> H_job_title, norm |-> S_job_title],
   [raw |-> H_city, norm |-> S_city],
   [raw |-> S_city, norm |-> S_city],
   [raw |-> S_noc, norm |-> S_noc],
   [raw |-> H_naics, norm |-> S_naics],
   [raw |-> H_extra, norm |-> H_extra]}

RawHeaders == UNION {[1..n -> RawNames] : n \in 0..MaxCols}

InitNorm ==
  /\ PipeOff
  /\ \E h \in RawHeaders, n \in 0..MaxRows :
       arg = [cols |-> [c \in 1..Len(h) |-> h[c].raw],
              expect |-> [c \in 1..Len(h) |-> h[c].norm],
              rows |-> [r \in 1..n |->
                          [c \in 1..Len(h) |-> RawCell([id |-> 0], "utf-8", r, c)]]]
  /\ res = <<>>
  /\ fpc = "norm"

\* normalize_schema applied to a table
NormalizeOnce ==
  /\ fpc = "norm"
  /\ res' = <<normalize_schema([cols |-> arg.cols, rows |-> arg.rows])>>
  /\ fpc' = "norm1"
  /\ UNCHANGED <<arg, pipeVars>>

\* normalize_schema applied again, to the table it returned
NormalizeAgain ==
  /\ fpc = "norm1"
  /\ res' = Append(res, normalize_schema(res[1].df))
  /\ fpc' = "norm2"
  /\ UNCHANGED <<arg, pipeVars>>

NextNorm == NormalizeOnce \/ NormalizeAgain

SpecNorm == InitNorm /\ [][NextNorm]_vars

\* ================================================================ claims

\* ingest_all_files is over: it returned a table to main, or it raised
IngestReturned == pc \in {"save", "done"} \/ (pc = "aborted" /\ err = "OSError")
IngestRaised == pc = "aborted" /\ err # "OSError"
IngestOver == IngestReturned \/ IngestRaised

\* Some candidate encoding parses the file
Decodable(f) == Parses(f.kind) # {}

FixedOrder == <<"utf-8", "utf-16", "cp1252", "latin1">>

\* The file a row of the combined table was read from, by the cells read
\* from the file that the row still carries
IsRawCell(v) == Len(v) = 5 /\ v[1] = "cell"
RowOrigins(row) ==
  {i \in 1..Len(files) : \E c \in 1..Len(row) : IsRawCell(row[c]) /\ row[c][2] = ToString(i)}

\* The period in each file name used, read off the name by hand
MonthOf(name) ==
  CASE name = Name_a -> T_2023_01
    [] name = Name_x -> <<"a","b","-","2","0","2","3">>
    [] OTHER -> Unknown

RECURSIVE SumRows(_)
SumRows(k) ==
  IF k = 0 THEN 0
  ELSE (IF Decodable(files[k]) THEN files[k].nrows ELSE 0) + SumRows(k - 1)

\* C1: whenever at least one discovered file is decoded by some candidate
\* encoding, ingest_all returns a combined dataset and does not raise
C1_PartialFailureTolerance ==
  (IngestOver /\ \E i \in 1..Len(files) : Decodable(files[i])) => IngestReturned

\* C2: DiscoveryError (FileNotFoundError) exactly when the directory is
\* missing or lists no file, before any file is decoded; NoValidDataError
\* (RuntimeError) exactly when files were discovered and every one failed to
\* decode under all candidate encodings
C2_ErrorKindsExact ==
  IngestOver =>
    /\ (err = "FileNotFoundError") <=> (~dirExists \/ Len(files) = 0)
    /\ (err = "FileNotFoundError") => results = <<>>
    /\ (err = "RuntimeError") <=>
         (Len(files) > 0 /\ \A i \in 1..Len(files) : ~Decodable(files[i]))

\* C3: decode never raises; for a file no candidate encoding parses it logs
\* exactly one error naming the file and returns a table with zero rows and
\* zero columns
C3_DecodeNeverRaises ==
  \A i \in 1..Len(results) :
    /\ results[i].raised = "none"
    /\ ~Decodable(files[i]) =>
         /\ Len(results[i].df.cols) = 0
         /\ Len(results[i].df.rows) = 0
         /\ Cardinality({k \in 1..Len(results[i].log) :
                           results[i].log[k].lvl = "error"}) = 1
         /\ \A k \in 1..Len(results[i].log) :
              results[i].log[k].lvl = "error" => results[i].log[k].arg = files[i].name

C3_Witness ==
  \E i \in 1..Len(results) : files[i].kind = "garbage" /\ pc = "decode"

\* C4: with M > 0 of the N discovered files decoded, ingest_all returns the
\* concatenation in discovery order of the M decoded tables: the row count is
\* the sum of their row counts, the columns are the union of their columns, a
\* cell of a column the row's file lacks is null
C4_ConcatenationOfDecoded ==
  (IngestOver /\ \E i \in 1..Len(files) : Decodable(files[i])) =>
    /\ IngestReturned
    /\ Len(combined.rows) = SumRows(Len(files))
    /\ Range(combined.cols) =
         UNION {Range(results[i].df.cols) : i \in {j \in 1..Len(files) : Decodable(files[j])}}
    /\ \A r \in 1..Len(combined.rows) :
         /\ Cardinality(RowOrigins(combined.rows[r])) = 1
         /\ \A q \in 1..r : \A i \in RowOrigins(combined.rows[r]) :
              \A j \in RowOrigins(combined.rows[q]) : j <= i
         /\ \A c \in 1..Len(combined.cols) : \A i \in RowOrigins(combined.rows[r]) :
              combined.cols[c] \notin Range(results[i].df.cols) =>
                combined.rows[r][c] = NA

\* C5: the encodings are tried in the order utf-8, utf-16, cp1252, latin1,
\* each at most once, up to and including the first that parses; the table
\* returned is the one read with that encoding and the one "loaded" line
\* names it; with none parsing, all four were tried once each
C5_FirstEncodingWins ==
  \A i \in 1..Len(results) :
    LET f == files[i]
        r == results[i]
        oks == {k \in 1..Len(FixedOrder) : FixedOrder[k] \in Parses(f.kind)}
        loaded == {k \in 1..Len(r.log) : r.log[k].msg = "loaded"}
    IN IF oks = {}
       THEN r.tried = FixedOrder /\ loaded = {}
       ELSE LET first == CHOOSE k \in oks : \A j \in oks : k <= j
            IN /\ r.tried = SubSeq(FixedOrder, 1, first)
               /\ Cardinality(loaded) = 1
               /\ \A k \in loaded : r.log[k].enc = FixedOrder[first] /\ r.log[k].lvl = "info"
               /\ Len(r.df.rows) = f.nrows
               /\ \A row \in 1..Len(r.df.rows) : \A c \in 1..Len(Header(f.kind)) :
                    \/ r.df.cols[c] \in {S_source_file, S_source_month}
                    \/ r.df.rows[row][c] = RawCell(f, FixedOrder[first], row, c)

C5_Witness ==
  \E i \in 1..Len(results) :
    /\ files[i].kind = "cp1252"
    /\ files[i].nrows > 0
    /\ results[i].tried = <<"utf-8", "utf-16", "cp1252">>

\* C6: every row of the combined dataset has source_file equal to the name of
\* the file the row was read from and source_month equal to the period in
\* that name (or "unknown"), neither null, also when the file had columns of
\* those names itself
C6_Provenance ==
  IngestReturned =>
    /\ S_source_file \in Range(combined.cols)
    /\ S_source_month \in Range(combined.cols)
    /\ \A r \in 1..Len(combined.rows) :
         LET row == combined.rows[r] IN
         /\ RowOrigins(row) # {}
         /\ \A i \in RowOrigins(row) : \A c \in 1..Len(combined.cols) :
              /\ combined.cols[c] = S_source_file =>
                   row[c] # NA /\ row[c] = files[i].name
              /\ combined.cols[c] = S_source_month =>
                   row[c] # NA /\ row[c] = MonthOf(files[i].name)

C6_Witness ==
  /\ IngestReturned
  /\ \E r \in 1..Len(combined.rows) : \E i \in RowOrigins(combined.rows[r]) :
       files[i].kind = "latin1"
  /\ \E r \in 1..Len(combined.rows) : \E i \in RowOrigins(combined.rows[r]) :
       files[i].kind = "utf16"

\* C7: after normalize the columns include the 7 required columns; each one
\* absent after trimming and lower-casing is added, entirely null, with one
\* warning naming it; no column is removed and the columns already there keep
\* their values
C7_RequiredColumnsPresent ==
  fpc \in {"norm1", "norm2"} =>
    LET out == res[1].df
        wlog == res[1].log
        n == Len(arg.cols)
        absent == Range(REQUIRED_COLUMNS) \ Range(arg.expect)
        added == SubSeq(out.cols, n + 1, Len(out.cols))
    IN /\ Range(REQUIRED_COLUMNS) \subseteq Range(out.cols)
       /\ SubSeq(out.cols, 1, n) = arg.expect
       /\ Range(added) = absent
       /\ Len(added) = Cardinality(absent)
       /\ Len(out.rows) = Len(arg.rows)
       /\ \A r \in 1..Len(out.rows) :
            /\ Len(out.rows[r]) = Len(out.cols)
            /\ \A c \in 1..n : out.rows[r][c] = arg.rows[r][c]
            /\ \A c \in (n + 1)..Len(out.cols) : out.rows[r][c] = NA
       /\ Len(wlog) = Len(added)
       /\ \A k \in 1..Len(wlog) :
            wlog[k].lvl = "warning" /\ wlog[k].msg = "missing_column" /\ wlog[k].arg = added[k]

\* A consequence of C7 in the pipeline: every table collected for the
\* concatenation has the 7 required columns
ContributingTablesHaveRequiredColumns ==
  \A k \in 1..Len(dfs) : Range(REQUIRED_COLUMNS) \subseteq Range(dfs[k].cols)

C7_Witness ==
  /\ fpc = "norm1"
  /\ Len(arg.rows) > 0
  /\ H_job_title \in Range(arg.cols)
  /\ S_job_title \in Range(res[1].df.cols)
  /\ Len(res[1].log) = Len(REQUIRED_COLUMNS) - 1

\* C8: normalize applied to its own result returns the same column names in
\* the same order with the same cells, adds no column and logs no warning
C8_NormalizeIdempotent ==
  fpc = "norm2" =>
    /\ res[2].df.cols = res[1].df.cols
    /\ res[2].df.rows = res[1].df.rows
    /\ res[2].log = <<>>

C8_Witness ==
  /\ fpc = "norm2"
  /\ Len(arg.rows) > 0
  /\ arg.cols # arg.expect
  /\ Len(res[1].log) > 0

\* C9: extract_period returns the first token of the stem, left to right,
\* that contains a hyphen and has exactly 7 characters, with no warning; with
\* no such token it logs one warning and returns "unknown"
C9_FirstPeriodToken ==
  fpc = "period_done" =>
    LET t == arg.tokens
        q == {k \in 1..Len(t) : Len(t[k]) = 7 /\ \E j \in 1..Len(t[k]) : t[k][j] = "-"}
    IN IF q = {}
       THEN /\ res.val = Unknown
            /\ Len(res.log) = 1
            /\ res.log[1].lvl = "warning"
       ELSE /\ res.val = t[CHOOSE k \in q : \A j \in q : k <= j]
            /\ res.log = <<>>

C9_Witness ==
  /\ fpc = "period_done"
  /\ arg.tokens = <<T_report, T_2023_01, T_final_x>>
  /\ res.val = T_2023_01

\* C10: the phases of a run occur in the order discovery, one decode per
\* discovered file, assembly, persist; persist runs at most once and only on
\* the table ingest_all returned; when ingest_all raises FileNotFoundError or
\* RuntimeError the output directory and file are as they were
C10_PhasesAndNoOutputOnAbort ==
  /\ Len(trace) <= Len(files) + 3
  /\ \A k \in 1..Len(trace) :
       trace[k] = (CASE k = 1 -> "discover"
                     [] k >= 2 /\ k <= Len(files) + 1 -> "decode"
                     [] k = Len(files) + 2 -> "assemble"
                     [] OTHER -> "persist")
  /\ Cardinality({k \in 1..Len(trace) : trace[k] = "persist"}) <= 1
  /\ (\E k \in 1..Len(trace) : trace[k] = "persist") => IngestReturned
  /\ outFile.state = "written" => (IngestReturned /\ outFile.data = combined)
  /\ err \in {"FileNotFoundError", "RuntimeError"} =>
       /\ pc = "aborted"
       /\ outDir = out0.dir
       /\ outFile = out0.file
       /\ \A k \in 1..Len(trace) : trace[k] # "persist"

C10_Witness ==
  /\ err = "RuntimeError"
  /\ Len(files) = MaxFiles
  /\ out0.file.state = "old"
  /\ outFile.state = "old"

====
